---- MODULE Spec2Model ----
(***************************************************************************)
(* A model of the Parameterized library (src/parameterized): the shared    *)
(* conversion registry, serialize_params / deserialize_params, the         *)
(* construction engine create_obj_from_params and the polymorphic resolver *)
(* of ParameterizedABC, driven by a small program of example classes.      *)
(***************************************************************************)
EXTENDS Integers, Sequences, FiniteSets, TLC

VARIABLES classes, registry, nregs, obj, last

vars == <<classes, registry, nregs, obj, last>>

(***************************************************************************)
(* Bounds.                                                                 *)
(***************************************************************************)
\* how many times the register_serializers decorator is applied
MaxRegistrations == 2

(***************************************************************************)
(* Python values.  k is the runtime kind, c the class of an enum member or *)
(* of a nested Parameterized instance, v the scalar payload, sub the       *)
(* attributes of a nested instance or the entries of a dict.               *)
(***************************************************************************)
NoSub == <<>>

V(k, c, v, sub) == [k |-> k, c |-> c, v |-> v, sub |-> sub]

IntV(v) == V("int", "", v, NoSub)

BoolV(v) == V("bool", "", v, NoSub)

StrV(v) == V("str", "", v, NoSub)

ListV(v) == V("list", "", v, NoSub)

NdArrayV(v) == V("ndarray", "", v, NoSub)

PathV(v) == V("path", "", v, NoSub)

EnumV(e, n) == V("enum", e, n, NoSub)

DictV(m) == V("dict", "", "", m)

ParamV(c, attrs) == V("param", c, "", attrs)

\* the members of the enumerations of the example program
EnumMembers(e) ==
    CASE e = "TestEnum" -> {"ONE", "TWO", "THREE"}
      [] e = "Color" -> {"RED", "ONE"}
      [] OTHER -> {}

EmptyMap == [a \in {} |-> 0]

\* dict restricted to / without keys
Without(m, ks) == [a \in (DOMAIN m) \ ks |-> m[a]]

\* dict.update
Updated(m, n) == [a \in (DOMAIN m) \cup (DOMAIN n) |-> IF a \in DOMAIN n THEN n[a] ELSE m[a]]

(***************************************************************************)
(* Exceptions.  msg is the message as a sequence of words.                 *)
(***************************************************************************)
Err(type, msg) == [type |-> type, msg |-> msg]

NoErr == Err("", <<>>)

KeyError(key) == Err("KeyError", <<key>>)

TypeError(what) == Err("TypeError", <<what>>)

\* parameterized.py:142
NoTypeEnumError ==
    Err("Exception", <<"type_enum", "attribute", "does", "not", "exist", "on", "the", "given", "class!">>)

\* parameterized.py:176-178
NonParameterizedSuperclassError ==
    Err("Exception", <<"Attempted", "to", "retrieve", "parameterized", "subclasses", "of", "a",
                       "non-parameterized", "superclass!">>)

\* parameterized.py:164
UnableToCreateSubclassError(t) ==
    Err("Exception", <<"Unable", "to", "create", "subclass", "of", "the", "given", "type:", t.c, t.v>>)

\* parameterized.py:288 (an f-string without a placeholder)
LackOfRequiredArgumentsError(arg) ==
    Err("Exception", <<"Parameterized", "factory", "unable", "to", "call", "__init__()", "due", "to",
                       "lack", "of", "required", "arguments">>)

(***************************************************************************)
(* The example program: the classes that use the library.  own lists the   *)
(* names a class body assigns; the other fields give their values.         *)
(* type_enum names an enumeration, or is "<property object>" for the       *)
(* abstract property of ParameterizedABC; type_ is an enum member or the   *)
(* abstract property object.  NotOwn and "-" fill the fields of names the  *)
(* class body does not assign; lookups never read them.                    *)
(***************************************************************************)
PropertyV(name) == V("property", "", name, NoSub)

NotOwn == V("-", "", "", NoSub)

ClassDef(parent, own, excluded_params, excluded_subclasses, type_, type_enum, init) ==
    [parent |-> parent, own |-> own, excluded_params |-> excluded_params,
     excluded_subclasses |-> excluded_subclasses, type_ |-> type_, type_enum |-> type_enum,
     init |-> init]

RegistryNames == {"_param_serializers", "_param_deserializers", "_type_serializers", "_type_deserializers"}

Plain(parent, own, excluded_params, init) ==
    ClassDef(parent, own, excluded_params, {}, NotOwn, "-", init)

Member(parent, own, excluded_subclasses, type_, type_enum, init) ==
    ClassDef(parent, own, {}, excluded_subclasses, type_, type_enum, init)

ClassTable ==
    [Parameterized |-> Plain("object", RegistryNames \cup {"excluded_params"}, {}, "object"),
     ParameterizedABC |-> Member("Parameterized", {"excluded_subclasses", "type_", "type_enum"}, {},
                                 PropertyV("type_"), "<property object>", "object"),
     Test |-> Plain("Parameterized", {"__init__"}, {}, "Test"),
     Excl |-> Plain("Test", {"excluded_params"}, {"i"}, "Test"),
     ExclChild |-> Plain("Excl", {"excluded_params"}, {"s"}, "Test"),
     Point |-> Plain("Parameterized", {"__init__"}, {}, "Point"),
     Opt |-> Plain("Parameterized", {"__init__"}, {}, "Opt"),
     TempClass |-> Plain("Parameterized", {"__init__"}, {}, "TempClass"),
     TempChild |-> Plain("TempClass", {}, {}, "TempClass"),
     BadParent |-> Member("ParameterizedABC", {"__init__"}, {}, NotOwn, "-", "Pass"),
     BadBadChild |-> Member("BadParent", {"__init__"}, {}, NotOwn, "-", "Pass"),
     OnlyType |-> Member("BadParent", {"type_"}, {}, EnumV("TestEnum", "ONE"), "-", "Pass"),
     LateBoth |-> Member("BadParent", {"type_", "type_enum"}, {}, EnumV("TestEnum", "TWO"), "TestEnum", "Pass"),
     GoodParent |-> Member("ParameterizedABC", {"type_enum", "excluded_subclasses", "__init__"}, {"Helper"},
                           NotOwn, "TestEnum", "Family"),
     BadChild |-> Member("GoodParent", {"__init__"}, {}, NotOwn, "-", "Family"),
     GoodChild |-> Member("GoodParent", {"type_", "__init__"}, {}, EnumV("TestEnum", "ONE"), "-", "Family"),
     ChildTwo |-> Member("GoodParent", {"type_"}, {}, EnumV("TestEnum", "TWO"), "-", "Family"),
     Helper |-> Member("GoodParent", {"type_"}, {}, EnumV("TestEnum", "THREE"), "-", "Family"),
     Alien |-> Member("GoodParent", {"type_"}, {}, EnumV("Color", "ONE"), "-", "Family")]

Classes == DOMAIN ClassTable

\* the method resolution order of a class (single inheritance), nearest first
RECURSIVE MRO(_)
MRO(c) == IF c = "object" THEN <<>> ELSE <<c>> \o MRO(classes[c].parent)

IsSubclass(c, d) == \E i \in DOMAIN MRO(c) : MRO(c)[i] = d

\* the class whose body supplies attribute name to class c: the first in c's MRO
Definer(c, name) ==
    LET m == MRO(c)
        hits == {i \in DOMAIN m : name \in classes[m[i]].own}
    IN  IF hits = {} THEN "object" ELSE m[CHOOSE i \in hits : \A j \in hits : i <= j]

\* class attribute lookup: cls.excluded_params, cls.type_, ...
excluded_params(c) == classes[Definer(c, "excluded_params")].excluded_params

excluded_subclasses(c) == classes[Definer(c, "excluded_subclasses")].excluded_subclasses

type_(c) == classes[Definer(c, "type_")].type_

type_enum(c) == classes[Definer(c, "type_enum")].type_enum

\* hasattr(cls, name)
hasattr(c, name) == Definer(c, name) # "object"

\* a faulty __abstractmethods__: only the names the class body itself assigns count
\* as overridden
abstractmethods_OwnBodyOnly(c) ==
    IF ~IsSubclass(c, "ParameterizedABC") THEN {}
    ELSE {n \in {"type_", "type_enum"} : n \notin classes[c].own \/ c = "ParameterizedABC"}

\* cls.__abstractmethods__ as ABCMeta computes it: the abstract properties of
\* ParameterizedABC that no class of the MRO overrides
abstractmethods(c) ==
    IF ~IsSubclass(c, "ParameterizedABC") THEN {}
    ELSE {n \in {"type_", "type_enum"} : Definer(c, n) = "ParameterizedABC"}

\* inspect.isabstract(cls)
isabstract(c) == abstractmethods(c) # {}

\* cls.__subclasses__()
subclasses(c) == {s \in DOMAIN classes : classes[s].parent = c}

RECURSIVE all_subclasses(_)
all_subclasses(c) ==
    subclasses(c) \cup UNION {all_subclasses(s) : s \in subclasses(c)}

(***************************************************************************)
(* Values at run time.                                                     *)
(***************************************************************************)
Raised(e) == V("raise", "", "", e)

IsRaise(val) == val.k = "raise"

\* isinstance(value, type_) for the types the example program names
isinstance(val, t) ==
    CASE t = "Enum" -> val.k = "enum"
      [] t = "int" -> val.k \in {"int", "bool"}
      [] t = "str" -> val.k = "str"
      [] t = "list" -> val.k = "list"
      [] t = "ndarray" -> val.k = "ndarray"
      [] t = "Path" -> val.k = "path"
      [] t = "Parameterized" -> val.k = "param"
      [] t \in DOMAIN classes -> val.k = "param" /\ IsSubclass(val.c, t)
      [] OTHER -> val.k = "enum" /\ val.c = t

\* enum_cls[val]
EnumLookup(e, val) ==
    IF val.k = "str" /\ val.c = "" /\ val.v \in EnumMembers(e) THEN EnumV(e, val.v)
    ELSE IF val.k \in {"list", "ndarray", "dict"} THEN Raised(TypeError("unhashable"))
    ELSE Raised(KeyError(IF val.k = "str" /\ val.c = "" THEN val.v ELSE val.k))

\* np.asarray(val): a list becomes an array, an array stays, anything else is
\* wrapped in a 0-d array
asarray(val) ==
    CASE val.k = "list" -> V("ndarray", val.c, val.v, val.sub)
      [] val.k = "ndarray" -> val
      [] OTHER -> V("ndarray", "0d", "", [item |-> val])

\* value.tolist()
tolist(val) ==
    IF val.c = "0d" THEN val.sub.item ELSE V("list", val.c, val.v, val.sub)

\* Path(val)
ToPath(val) ==
    CASE val.k = "str" -> V("path", val.c, val.v, NoSub)
      [] val.k = "path" -> val
      [] OTHER -> Raised(TypeError("expected str, bytes or os.PathLike object"))

\* str(val): the digits of a number are flavoured "int", any other text "repr"
ToStr(val) ==
    CASE val.k \in {"str", "path"} -> V("str", val.c, val.v, NoSub)
      [] val.k = "int" -> V("str", "int", val.v, NoSub)
      [] val.k = "bool" -> V("str", "", val.v, NoSub)
      [] OTHER -> V("str", "repr", "", [arg |-> val])

\* val + 1
PlusOne(val) ==
    CASE val.k = "int" -> IntV(val.v + 1)
      [] val.k = "bool" -> IntV(IF val.v = "True" THEN 2 ELSE 1)
      [] val.k = "ndarray" -> V("ndarray", "", "", [plus1 |-> val])
      [] OTHER -> Raised(TypeError("unsupported operand type(s) for +"))

\* the result of a converter of the example program that the model does not look into
Custom(f, val) == V("custom", f, "", [arg |-> val])

(***************************************************************************)
(* The decorated class of the example program (after test_param_types):    *)
(*   @register_serializers(enum_params=[("c", TestEnum), ("d", Color)],    *)
(*       numpy_params=["a"], path_params=["p"],                            *)
(*       parameterized_params=[("n", Test), ("m", Point)])                 *)
(*   class TempClass(Parameterized): ... the methods of Methods ...        *)
(***************************************************************************)
Decorated == {"TempClass"}

enum_params(c) == <<<<"c", "TestEnum">>, <<"d", "Color">>>>

numpy_params(c) == <<"a">>

path_params(c) == <<"p">>

parameterized_params(c) == <<<<"n", "Test">>, <<"m", "Point">>>>

\* cls.__dict__.values(), in definition order: each method with the attributes
\* the param_serializer / param_deserializer / type_serializer / type_deserializer
\* decorators gave it
Method(name, pser, pdes, tser, tdes) ==
    [name |-> name, _param_serializers |-> pser, _param_deserializers |-> pdes,
     _type_serializers |-> tser, _type_deserializers |-> tdes]

Methods(c) ==
    << Method("fg_deserializer", <<>>, <<"f", "g">>, <<>>, <<>>),
       Method("i_deserializer", <<>>, <<"i">>, <<>>, <<>>),
       Method("x_serializer", <<"x">>, <<>>, <<>>, <<>>),
       Method("enum_serializer", <<>>, <<>>, <<"Enum">>, <<>>),
       Method("int_serializer", <<>>, <<>>, <<"int">>, <<>>),
       Method("any_serializer", <<>>, <<>>, <<"int", "str">>, <<>>),
       Method("list_deserializer", <<>>, <<>>, <<>>, <<"list">>),
       Method("seq_deserializer", <<>>, <<>>, <<>>, <<"list", "ndarray">>),
       Method("__init__", <<>>, <<>>, <<>>, <<>>) >>

\* a registered callable: f names the function, c the class its closure refers to
Rule(f, c) == [f |-> f, c |-> c]

(***************************************************************************)
(* The registry: the four rule sets are class attributes that only         *)
(* Parameterized assigns (parameterized.py:41-44), so every class reaches  *)
(* the same four objects through attribute lookup.                         *)
(***************************************************************************)
EmptyRules ==
    [_param_serializers |-> EmptyMap, _param_deserializers |-> EmptyMap,
     _type_serializers |-> <<>>, _type_deserializers |-> <<>>]

\* cls._param_serializers, ... : the object found on the class that assigns the name
RulesOf(reg, c) ==
    [n \in RegistryNames |-> reg[Definer(c, n)][n]]

\* d[k] = rule for every k of keys, in order
AssignAll(d, keys, rule) ==
    [a \in (DOMAIN d) \cup {keys[i] : i \in DOMAIN keys} |->
        IF \E i \in DOMAIN keys : keys[i] = a THEN rule ELSE d[a]]

\* list.append of (type_, method) for every type_ of types, in order
AppendAll(l, types, rule) ==
    l \o [i \in DOMAIN types |-> <<types[i], rule>>]

\* the value a lambda of the wrapper sees in enum_cls / parameterized_cls when it
\* is called: the variable of the enclosing loop, read after the loop has ended
ClosureCell(pairs) == pairs[Len(pairs)][2]

\* decorators.py:40-47: the lambdas for the declared enum, numpy, path and
\* parameterized attributes
RegisterDeclared(pdes, c) ==
    LET ep == enum_params(c)
        pp == parameterized_params(c)
        d1 == IF ep = <<>> THEN pdes
              ELSE AssignAll(pdes, [i \in DOMAIN ep |-> ep[i][1]], Rule("enum_lambda", ClosureCell(ep)))
        d2 == AssignAll(d1, numpy_params(c), Rule("numpy_lambda", ""))
        d3 == AssignAll(d2, path_params(c), Rule("path_lambda", ""))
    IN  IF pp = <<>> THEN d3
        ELSE AssignAll(d3, [i \in DOMAIN pp |-> pp[i][1]], Rule("parameterized_lambda", ClosureCell(pp)))

\* decorators.py:50-62: the decorated methods, in the order of cls.__dict__
RECURSIVE RegisterMethods(_, _, _)
RegisterMethods(rules, methods, i) ==
    IF i > Len(methods) THEN rules
    ELSE LET m == methods[i]
             r == Rule(m.name, "")
         IN  RegisterMethods(
                 [_param_serializers |-> AssignAll(rules._param_serializers, m._param_serializers, r),
                  _param_deserializers |-> AssignAll(rules._param_deserializers, m._param_deserializers, r),
                  _type_serializers |-> AppendAll(rules._type_serializers, m._type_serializers, r),
                  _type_deserializers |-> AppendAll(rules._type_deserializers, m._type_deserializers, r)],
                 methods, i + 1)

\* register_serializers(...)(cls): the rule objects of cls after the wrapper ran
Registered(rules, c) ==
    RegisterMethods([rules EXCEPT !._param_deserializers = RegisterDeclared(@, c)], Methods(c), 1)

\* the registry after the wrapper mutated, in place, the objects cls reaches
wrapper(reg, c) ==
    LET after == Registered(RulesOf(reg, c), c)
    IN  [o \in DOMAIN reg |->
            [n \in RegistryNames |-> IF Definer(c, n) = o THEN after[n] ELSE reg[o][n]]]

(***************************************************************************)
(* Constructors of the example program.                                    *)
(***************************************************************************)
\* inspect.getfullargspec(cls.__init__): args after self, kwonlyargs, varkw;
\* defaults lists the args that have a default value
ArgSpec(args, defaults, kwonlyargs, varkw) ==
    [args |-> args, defaults |-> defaults, kwonlyargs |-> kwonlyargs, varkw |-> varkw]

InitOf(c) ==
    LET d == Definer(c, "__init__") IN IF d = "object" THEN "object" ELSE classes[d].init

getfullargspec(c) ==
    CASE InitOf(c) = "Point" -> ArgSpec(<<"x">>, {}, <<>>, TRUE)        \* __init__(self, x, **kwargs)
      [] InitOf(c) = "Opt" -> ArgSpec(<<"x", "y">>, {"y"}, <<"z">>, FALSE)  \* __init__(self, x, y=0, *, z=1)
      [] InitOf(c) = "object" -> ArgSpec(<<>>, {}, <<>>, TRUE)
      [] OTHER -> ArgSpec(<<>>, {}, <<>>, FALSE)                          \* __init__(self)

Get(m, key, default) == IF key \in DOMAIN m THEN m[key] ELSE default

TestAttrs == [i |-> IntV(5), b |-> BoolV("False"), s |-> StrV("Hello")]

\* the attributes the body of __init__ assigns, given the bound arguments
InitBody(c, a, kw) ==
    CASE InitOf(c) = "Test" -> TestAttrs
      [] InitOf(c) = "Point" -> [x |-> a.x, y |-> Get(kw, "y", IntV(0))]
      [] InitOf(c) = "Opt" -> [x |-> a.x, y |-> Get(a, "y", IntV(0)), z |-> Get(kw, "z", IntV(1)), w |-> IntV(0)]
      [] InitOf(c) = "TempClass" ->
            [a |-> NdArrayV("zeros"), c |-> EnumV("TestEnum", "ONE"), d |-> EnumV("Color", "RED"),
             f |-> IntV(5), h |-> IntV(7), i |-> IntV(8), p |-> PathV("tmp"),
             n |-> ParamV("Test", TestAttrs), m |-> IntV(0), x |-> PathV("out")]
      [] InitOf(c) = "Family" -> [v |-> IntV(0)]
      [] OTHER -> EmptyMap

\* the outcome of an operation that builds an instance: err is NoErr and inst holds
\* the instance, or err is the exception raised; called tells whether cls.__init__
\* was invoked, caller is the caller's mapping when the operation ends
Outcome(err, c, attrs, called, caller) ==
    [err |-> err, cls |-> c, attrs |-> attrs, called |-> called, caller |-> caller]

\* the call of cls with args and kwargs
Construct(c, a, kw) ==
    LET spec == getfullargspec(c)
        required == {spec.args[i] : i \in DOMAIN spec.args} \ spec.defaults
    IN  IF isabstract(c) THEN [err |-> TypeError("Can't instantiate abstract class"), attrs |-> EmptyMap]
        ELSE IF ~(required \subseteq DOMAIN a)
             THEN [err |-> TypeError("missing required positional argument"), attrs |-> EmptyMap]
        ELSE IF InitOf(c) = "object" /\ DOMAIN kw # {}
             THEN [err |-> TypeError("takes no arguments"), attrs |-> EmptyMap]
        ELSE [err |-> NoErr, attrs |-> InitBody(c, a, kw)]

(***************************************************************************)
(* The engine: parameterized.py.  A mapping is a function from attribute   *)
(* names to values; the order of its entries is not modelled, so when      *)
(* several entries make a converter raise, which exception is reported is  *)
(* chosen among them.                                                      *)
(***************************************************************************)
RECURSIVE Apply(_, _, _)
RECURSIVE deserialize_params(_, _, _, _, _)
RECURSIVE serialize_params(_, _, _, _, _)
RECURSIVE get_params(_, _, _)
RECURSIVE update_from_params(_, _, _, _, _)
RECURSIVE create_obj_from_params(_, _, _)
RECURSIVE from_params(_, _, _)

\* the index of the first (type_, rule) pair whose type_ the value is an instance
\* of, 0 when there is none
FirstMatch(typeRules, val) ==
    LET hits == {i \in DOMAIN typeRules : isinstance(val, typeRules[i][1])}
    IN  IF hits = {} THEN 0 ELSE CHOOSE i \in hits : \A j \in hits : i <= j

\* the value of a nested factory call: the instance, or the exception raised
AsValue(o) == IF o.err # NoErr THEN Raised(o.err) ELSE ParamV(o.cls, o.attrs)

\* calling a registered rule on a value
Apply(rule, val, reg) ==
    CASE rule.f = "enum_lambda" ->
            IF isinstance(val, rule.c) THEN val ELSE EnumLookup(rule.c, val)
      [] rule.f = "numpy_lambda" -> asarray(val)
      [] rule.f = "path_lambda" -> ToPath(val)
      [] rule.f = "parameterized_lambda" ->
            IF val.k # "dict" THEN Raised(Err("AttributeError", <<"items">>))
            ELSE AsValue(from_params(rule.c, val.sub, reg))
      [] rule.f = "fg_deserializer" -> ToStr(val)
      [] rule.f = "i_deserializer" -> PlusOne(val)
      [] OTHER -> Custom(rule.f, val)

\* a faulty deserialize_params: the type-matched deserializers are tried before
\* the exact rule of the attribute
DeserializeValue_TypeRulesFirst(attr, val, param_deserializers, type_deserializers, reg) ==
    IF FirstMatch(type_deserializers, val) # 0
    THEN Apply(type_deserializers[FirstMatch(type_deserializers, val)][2], val, reg)
    ELSE IF attr \in DOMAIN param_deserializers THEN Apply(param_deserializers[attr], val, reg)
    ELSE val

\* the conversion of one entry, parameterized.py:217-227
DeserializeValue(attr, val, param_deserializers, type_deserializers, reg) ==
    IF attr \in DOMAIN param_deserializers THEN Apply(param_deserializers[attr], val, reg)
    ELSE LET Use(i) == IF i = 0 THEN val ELSE Apply(type_deserializers[i][2], val, reg)
         IN  Use(FirstMatch(type_deserializers, val))

\* the converted mapping, or the exception a converter raised
Converted(conv) ==
    LET bad == {attr \in DOMAIN conv : IsRaise(conv[attr])}
    IN  IF bad = {} THEN [err |-> NoErr, val |-> conv]
        ELSE [err |-> conv[CHOOSE attr \in bad : TRUE].sub, val |-> EmptyMap]

\* parameterized.py:205-229
deserialize_params(params, excluded, param_deserializers, type_deserializers, reg) ==
    Converted([attr \in (DOMAIN params) \ excluded |->
                  DeserializeValue(attr, params[attr], param_deserializers, type_deserializers, reg)])

\* the built-in conversions of serialize_params, parameterized.py:246-253
IsBuiltin(val) == val.k \in {"param", "ndarray", "enum", "path"}

Builtin(val, reg) ==
    CASE val.k = "param" -> DictV(get_params(val.c, val.sub, reg))
      [] val.k = "ndarray" -> tolist(val)
      [] val.k = "enum" -> StrV(val.v)
      [] val.k = "path" -> ToStr(val)

\* a faulty serialize_params: the type-matched serializers are tried before the
\* built-in conversions
SerializeValue_TypeRulesFirst(attr, val, param_serializers, type_serializers, reg) ==
    IF attr \in DOMAIN param_serializers THEN Apply(param_serializers[attr], val, reg)
    ELSE IF FirstMatch(type_serializers, val) # 0
         THEN Apply(type_serializers[FirstMatch(type_serializers, val)][2], val, reg)
    ELSE IF IsBuiltin(val) THEN Builtin(val, reg)
    ELSE val

\* the conversion of one attribute value, parameterized.py:242-259
SerializeValue(attr, val, param_serializers, type_serializers, reg) ==
    IF attr \in DOMAIN param_serializers THEN Apply(param_serializers[attr], val, reg)
    ELSE IF IsBuiltin(val) THEN Builtin(val, reg)
    ELSE LET Use(i) == IF i = 0 THEN val ELSE Apply(type_serializers[i][2], val, reg)
         IN  Use(FirstMatch(type_serializers, val))

\* parameterized.py:232-261
serialize_params(params, excluded, param_serializers, type_serializers, reg) ==
    [attr \in (DOMAIN params) \ excluded |->
        SerializeValue(attr, params[attr], param_serializers, type_serializers, reg)]

\* ParameterizedABC.get_params adds the tag, parameterized.py:127-131
WithTypeTag(c, base) ==
    IF IsSubclass(c, "ParameterizedABC") THEN Updated(base, [type |-> StrV(type_(c).v)]) ELSE base

\* Parameterized.get_params, parameterized.py:49-54, and the override of
\* ParameterizedABC for a family member
get_params(c, attrs, reg) ==
    WithTypeTag(c, serialize_params(attrs, excluded_params(c), reg[Definer(c, "_param_serializers")]._param_serializers,
                                    reg[Definer(c, "_type_serializers")]._type_serializers, reg))

\* cls's deserialize_params(params, cls.excluded_params, cls._param_deserializers,
\* cls._type_deserializers)
Deserialized(c, params, reg) ==
    deserialize_params(params, excluded_params(c), reg[Definer(c, "_param_deserializers")]._param_deserializers,
                       reg[Definer(c, "_type_deserializers")]._type_deserializers, reg)

\* the loop over self.__dict__, parameterized.py:67-71
Assigned(attrs, d) ==
    IF d.err # NoErr THEN [err |-> d.err, attrs |-> attrs]
    ELSE [err |-> NoErr,
          attrs |-> [attr \in DOMAIN attrs |->
                        IF attr \in DOMAIN d.val THEN d.val[attr] ELSE attrs[attr]]]

\* Parameterized.update_from_params, parameterized.py:56-71
update_from_params(c, attrs, params, use_deserializers, reg) ==
    IF use_deserializers THEN Assigned(attrs, Deserialized(c, params, reg))
    ELSE Assigned(attrs, [err |-> NoErr, val |-> params])

\* the caller's dict after create_obj_from_params popped the keys of popped from
\* its working dict: the working dict is a copy (parameterized.py:278)
CallerAfter(params, popped) == params

\* the instance after the call of cls with args and kwargs and the closing update_from_params,
\* parameterized.py:299-303
Finish(c, params, popped, built, remaining, reg) ==
    IF built.err # NoErr THEN Outcome(built.err, c, EmptyMap, TRUE, CallerAfter(params, popped))
    ELSE LET Done(updated) == Outcome(updated.err, c, updated.attrs, TRUE, CallerAfter(params, popped))
         IN  Done(update_from_params(c, built.attrs, remaining, FALSE, reg))

\* the binding of args and kwargs, parameterized.py:282-297
Bind(c, params, spec, argNames, kwNames, reg) ==
    LET missing == {i \in DOMAIN spec.args : spec.args[i] \notin DOMAIN params}
        first == CHOOSE i \in missing : \A j \in missing : i <= j
        remaining == IF spec.varkw THEN EmptyMap ELSE Without(params, argNames \cup kwNames)
        kwargs == IF spec.varkw THEN Without(params, argNames)
                  ELSE [k \in (kwNames \cap DOMAIN params) \ argNames |-> params[k]]
    IN  IF missing # {}
        THEN Outcome(LackOfRequiredArgumentsError(spec.args[first]), c, EmptyMap, FALSE,
                     CallerAfter(params, {spec.args[i] : i \in 1..(first - 1)}))
        ELSE Finish(c, params, (DOMAIN params) \ (DOMAIN remaining),
                    Construct(c, [a \in argNames |-> params[a]], kwargs), remaining, reg)

ArgNames(spec) == {spec.args[i] : i \in DOMAIN spec.args}

KwNames(spec) == {spec.kwonlyargs[i] : i \in DOMAIN spec.kwonlyargs}

\* parameterized.py:264-303
create_obj_from_params(c, params, reg) ==
    Bind(c, params, getfullargspec(c), ArgNames(getfullargspec(c)), KwNames(getfullargspec(c)), reg)

\* type(value) for a class attribute that is an enum member or a property object
TypeOf(val) == IF val.k = "enum" THEN val.c ELSE "<class 'property'>"

\* ParameterizedABC.all_parameterized_subclasses, parameterized.py:168-189
all_parameterized_subclasses(c) ==
    IF ~hasattr(c, "type_enum") THEN [err |-> NonParameterizedSuperclassError, val |-> {}]
    ELSE [err |-> NoErr,
          val |-> {s \in all_subclasses(c) :
                      /\ hasattr(s, "type_")
                      /\ TypeOf(type_(s)) = type_enum(c)
                      /\ ~isabstract(s)
                      /\ s \notin excluded_subclasses(c)}]

\* ParameterizedABC.subclass_type_mapping, parameterized.py:191-199, as the set of
\* (type_, subclass) pairs of the dict
TypeMapping(subs) == [err |-> subs.err, val |-> {<<type_(s), s>> : s \in subs.val}]

subclass_type_mapping(c) == TypeMapping(all_parameterized_subclasses(c))

\* cls.type_enum[t]
EnumSubscript(e, t) ==
    IF e = "<property object>" THEN Raised(TypeError("'property' object is not subscriptable"))
    ELSE EnumLookup(e, t)

\* the instance a failed or finished factory call leaves, with the caller's
\* mapping, which the factories never touch (they work on the deserialized copy)
Fail(e, c, params) == Outcome(e, c, EmptyMap, FALSE, params)

Returned(o, params) == [o EXCEPT !.caller = params]

\* the search for the subclass and its construction, parameterized.py:153-166
Resolve(c, params, rest, t, subs, reg) ==
    IF IsRaise(t) THEN Fail(t.sub, c, params)
    ELSE IF subs.err # NoErr THEN Fail(subs.err, c, params)
    ELSE IF {s \in subs.val : type_(s) = t} = {} THEN Fail(UnableToCreateSubclassError(t), c, params)
    ELSE Returned(create_obj_from_params(CHOOSE s \in subs.val : type_(s) = t, rest, reg), params)

\* the tag, parameterized.py:148-151
Tagged(c, params, d, reg) ==
    IF d.err # NoErr THEN Fail(d.err, c, params)
    ELSE IF "type" \notin DOMAIN d.val THEN Fail(KeyError("type"), c, params)
    ELSE Resolve(c, params, Without(d.val, {"type"}),
                 IF isinstance(d.val["type"], "Enum") THEN d.val["type"]
                 ELSE EnumSubscript(type_enum(c), d.val["type"]),
                 all_parameterized_subclasses(c), reg)

\* ParameterizedABC.from_params, parameterized.py:133-166
abc_from_params(c, params, reg) ==
    IF ~hasattr(c, "type_enum") THEN Fail(NoTypeEnumError, c, params)
    ELSE Tagged(c, params, Deserialized(c, params, reg), reg)

\* the construction from the deserialized mapping, parameterized.py:85
Created(c, params, d, reg) ==
    IF d.err # NoErr THEN Fail(d.err, c, params)
    ELSE Returned(create_obj_from_params(c, d.val, reg), params)

\* Parameterized.from_params, parameterized.py:73-85
plain_from_params(c, params, reg) == Created(c, params, Deserialized(c, params, reg), reg)

\* cls.from_params(params): the classmethod the MRO of cls resolves to
from_params(c, params, reg) ==
    IF IsSubclass(c, "ParameterizedABC") THEN abc_from_params(c, params, reg)
    ELSE plain_from_params(c, params, reg)

(***************************************************************************)
(* The mappings the program passes in.                                     *)
(***************************************************************************)
ExampleParams == [i |-> IntV(5), b |-> BoolV("False"), s |-> StrV("Hello")]

TestInputs ==
    { ExampleParams,
      [i |-> IntV(0), b |-> BoolV("True"), s |-> StrV("Goodbye")],
      [i |-> IntV(100), no |-> BoolV("False")] }

PointInputs ==
    { [x |-> IntV(1), y |-> IntV(2)],
      [y |-> IntV(2)],
      [x |-> IntV(1)],
      [x |-> IntV(1), y |-> IntV(2), z |-> IntV(3), w |-> IntV(4)] }

FamilyInputs ==
    { [type |-> StrV("TWO")],
      [type |-> EnumV("TestEnum", "TWO")],
      [type |-> StrV("ONE"), v |-> IntV(7)],
      [type |-> StrV("THREE")],
      [type |-> StrV("FOUR")],
      [type |-> EnumV("Color", "ONE")],
      [v |-> IntV(7)] }

TempInputs ==
    { [a |-> ListV("1,2,3"), c |-> StrV("ONE"), d |-> EnumV("Color", "RED"), f |-> IntV(100),
       h |-> IntV(10000), i |-> IntV(8)],
      [p |-> StrV("dir"), n |-> DictV(ExampleParams), m |-> DictV([x |-> IntV(1)]), x |-> IntV(9)],
      [x |-> EnumV("TestEnum", "TWO"), a |-> ListV("4,5"), h |-> ListV("6,7")],
      [c |-> StrV("TWO")],
      EmptyMap }

(***************************************************************************)
(* State.  classes holds the classes the program has defined; registry    *)
(* holds the rule objects, by the class that assigns them; nregs counts    *)
(* the applications of register_serializers; obj is the instance the      *)
(* program holds; last describes the latest call: its                     *)
(* operation, class, input mapping, use_deserializers, the instance before *)
(* the call, the result (a mapping or a set), the exception raised,        *)
(* whether a constructor ran, the caller's mapping after the call, and     *)
(* whether the input was the get_params() of the instance held.            *)
(***************************************************************************)
NoObj == [cls |-> "", attrs |-> EmptyMap]

Call(op, c, params, use, pre, outmap, outset, err, called, caller, rt) ==
    [op |-> op, cls |-> c, params |-> params, use |-> use, pre |-> pre, outmap |-> outmap,
     outset |-> outset, err |-> err, called |-> called, caller |-> caller, rt |-> rt]

Init ==
    /\ classes = ClassTable
    /\ registry = [Parameterized |-> EmptyRules]
    /\ nregs = 0
    /\ obj = NoObj
    /\ last = Call("start", "", EmptyMap, FALSE, NoObj, EmptyMap, {}, NoErr, FALSE, EmptyMap, FALSE)

\* @register_serializers(...) applied to class c
RegisterSerializers(c) ==
    /\ nregs < MaxRegistrations
    /\ registry' = wrapper(registry, c)
    /\ nregs' = nregs + 1
    /\ last' = Call("register_serializers", c, EmptyMap, FALSE, obj, EmptyMap, {}, NoErr, FALSE, EmptyMap, FALSE)
    /\ UNCHANGED <<classes, obj>>

\* e = c()
Constructed(c, built) ==
    /\ obj' = IF built.err = NoErr THEN [cls |-> c, attrs |-> built.attrs] ELSE obj
    /\ last' = Call("new", c, EmptyMap, FALSE, obj, EmptyMap, {}, built.err, built.err = NoErr,
                    EmptyMap, FALSE)

New(c) ==
    /\ Constructed(c, Construct(c, EmptyMap, EmptyMap))
    /\ UNCHANGED <<classes, registry, nregs>>

\* e.update_from_params(params, use_deserializers)
UpdatedObj(params, use_deserializers, r) ==
    /\ obj' = [obj EXCEPT !.attrs = r.attrs]
    /\ last' = Call("update_from_params", obj.cls, params, use_deserializers, obj, EmptyMap, {},
                    r.err, FALSE, params, FALSE)

UpdateFromParams(params, use_deserializers) ==
    /\ obj # NoObj
    /\ UpdatedObj(params, use_deserializers,
                  update_from_params(obj.cls, obj.attrs, params, use_deserializers, registry))
    /\ UNCHANGED <<classes, registry, nregs>>

\* the instance held after a factory call: the one built, or the old one when
\* the call raised
Held(o) == IF o.err = NoErr THEN [cls |-> o.cls, attrs |-> o.attrs] ELSE obj

Built(op, c, params, o, rt) ==
    /\ obj' = Held(o)
    /\ last' = Call(op, c, params, TRUE, obj, EmptyMap, {}, o.err, o.called, o.caller, rt)

\* e = c.from_params(params)
FromParams(c, params) ==
    /\ Built("from_params", c, params, from_params(c, params, registry), FALSE)
    /\ UNCHANGED <<classes, registry, nregs>>

\* e = type(e).from_params(e.get_params())
RoundTripOf(params) ==
    Built("from_params", obj.cls, params, from_params(obj.cls, params, registry), TRUE)

RoundTrip ==
    /\ obj # NoObj
    /\ RoundTripOf(get_params(obj.cls, obj.attrs, registry))
    /\ UNCHANGED <<classes, registry, nregs>>

\* e = create_obj_from_params(c, params)
CreateObjFromParams(c, params) ==
    /\ Built("create_obj_from_params", c, params, create_obj_from_params(c, params, registry), FALSE)
    /\ UNCHANGED <<classes, registry, nregs>>

\* e.get_params()
GetParams ==
    /\ obj # NoObj
    /\ last' = Call("get_params", obj.cls, EmptyMap, FALSE, obj, get_params(obj.cls, obj.attrs, registry),
                    {}, NoErr, FALSE, EmptyMap, FALSE)
    /\ UNCHANGED <<classes, registry, nregs, obj>>

\* c.all_parameterized_subclasses() and c.subclass_type_mapping()
Listed(op, c, r) ==
    /\ last' = Call(op, c, EmptyMap, FALSE, obj, EmptyMap, r.val, r.err, FALSE, EmptyMap, FALSE)
    /\ UNCHANGED <<classes, registry, nregs, obj>>

AllParameterizedSubclasses(c) ==
    Listed("all_parameterized_subclasses", c, all_parameterized_subclasses(c))

SubclassTypeMapping(c) ==
    Listed("subclass_type_mapping", c, subclass_type_mapping(c))

Families == {c \in Classes : IsSubclass(c, "ParameterizedABC")}

(***************************************************************************)
(* Four programs over the same state, one per part of the library.         *)
(***************************************************************************)
\* the attribute projector: plain entities, with and without exclusions
ProjClasses == {"Test", "Excl", "ExclChild"}

NextProj ==
    \/ \E c \in Decorated : RegisterSerializers(c)
    \/ \E c \in ProjClasses : New(c)
    \/ \E params \in TestInputs, use_deserializers \in BOOLEAN : UpdateFromParams(params, use_deserializers)
    \/ \E c \in ProjClasses : \E params \in TestInputs : FromParams(c, params)
    \/ RoundTrip
    \/ GetParams

SpecProj == Init /\ [][NextProj]_vars

\* the polymorphic resolver: the families of ParameterizedABC
NextFamily ==
    \/ \E c \in Families : New(c)
    \/ \E c \in Families : \E params \in FamilyInputs : FromParams(c, params)
    \/ RoundTrip
    \/ GetParams
    \/ \E c \in Families : AllParameterizedSubclasses(c)
    \/ \E c \in Families : SubclassTypeMapping(c)

SpecFamily == Init /\ [][NextFamily]_vars

\* the conversion registry: the decorated class, its child and an unrelated class
RegClasses == {"TempClass", "TempChild", "Test"}

NextRegistry ==
    \/ \E c \in Decorated : RegisterSerializers(c)
    \/ \E c \in RegClasses : New(c)
    \/ \E params \in TempInputs, use_deserializers \in BOOLEAN : UpdateFromParams(params, use_deserializers)
    \/ \E c \in RegClasses : \E params \in TempInputs : FromParams(c, params)
    \/ GetParams

SpecRegistry == Init /\ [][NextRegistry]_vars

\* the construction engine: constructors with parameters
BuildClasses == {"Point", "Opt"}

NextBuild ==
    \/ \E c \in BuildClasses : New(c)
    \/ \E c \in BuildClasses : \E params \in PointInputs : CreateObjFromParams(c, params)
    \/ \E c \in BuildClasses : \E params \in PointInputs : FromParams(c, params)
    \/ \E params \in PointInputs, use_deserializers \in BOOLEAN : UpdateFromParams(params, use_deserializers)
    \/ GetParams

SpecBuild == Init /\ [][NextBuild]_vars

(***************************************************************************)
(* Properties.                                                             *)
(***************************************************************************)
\* C1, as claimed: whenever the program calls type(e).from_params(e.get_params())
\* (no converter is registered in SpecFamily), the call returns an instance and
\* the get_params() of that instance equals e.get_params().
C1_RoundTrip ==
    (last.op = "from_params" /\ last.rt) =>
        /\ last.err = NoErr
        /\ get_params(obj.cls, obj.attrs, registry) = last.params

\* C2, as claimed: an attribute named in the excluded_params of the instance's
\* class is never a key of get_params(), and after any calls of update_from_params
\* and from_params it still holds the value the constructor body gave it.
C2_Exclusion ==
    /\ last.op = "get_params" => (DOMAIN last.outmap) \cap excluded_params(last.cls) = {}
    /\ obj # NoObj =>
          \A n \in excluded_params(obj.cls) \cap DOMAIN obj.attrs :
              obj.attrs[n] = InitBody(obj.cls, EmptyMap, EmptyMap)[n]

\* the value update_from_params assigns for key a of the mapping of the latest call
AssignedValue(a) ==
    IF last.use THEN Deserialized(last.cls, last.params, registry).val[a] ELSE last.params[a]

\* C3, as claimed: update_from_params never changes the set of attribute names; it
\* assigns exactly the attributes that are keys of the input mapping without its
\* excluded keys, and leaves every other attribute's value as it was.
C3_InjectionSafety ==
    last.op = "update_from_params" =>
        /\ DOMAIN obj.attrs = DOMAIN last.pre.attrs
        /\ \A a \in DOMAIN obj.attrs :
              IF last.err = NoErr /\ a \in (DOMAIN last.params) \ excluded_params(last.cls)
              THEN obj.attrs[a] = AssignedValue(a)
              ELSE obj.attrs[a] = last.pre.attrs[a]

\* the dedicated error of ParameterizedABC.from_params for a tag no member has
IsUnknownVariantError(e) ==
    e.type = "Exception" /\ Len(e.msg) >= 4 /\ SubSeq(e.msg, 1, 4) = <<"Unable", "to", "create", "subclass">>

\* the enum value a tag stands for: a live value, or the member a name names
TagValue(c, tag) == IF tag.k = "enum" THEN tag ELSE EnumV(type_enum(c), tag.v)

\* the eligible members of the family of c whose type_ is the value of the tag
Eligible(c, tag) == {s \in all_parameterized_subclasses(c).val : type_(s) = TagValue(c, tag)}

\* C4, as claimed: from_params on a family that declares type_enum builds an
\* instance of the eligible member whose type_ is the tag, the same for the
\* symbolic name and the live value; a tag no eligible member has, a name outside
\* type_enum included, raises the dedicated unknown-variant error.
C4_UniqueResolution ==
    (/\ last.op = "from_params"
     /\ last.cls \in Families
     /\ type_enum(last.cls) # "<property object>"
     /\ "type" \in DOMAIN last.params) =>
        IF Eligible(last.cls, last.params["type"]) = {}
        THEN IsUnknownVariantError(last.err) /\ obj = last.pre
        ELSE last.err = NoErr /\ obj.cls \in Eligible(last.cls, last.params["type"])

\* the required positional parameters of the constructor of c: those without a default
RequiredArgs(c) ==
    {getfullargspec(c).args[i] : i \in DOMAIN getfullargspec(c).args} \ getfullargspec(c).defaults

\* the message of exception e contains the word p
Names(e, p) == \E i \in DOMAIN e.msg : e.msg[i] = p

\* C5, as claimed: create_obj_from_params on a mapping that lacks a required
\* positional parameter p raises an error that names p, without calling the
\* constructor, returning an instance or changing the caller's mapping.
C5_MissingArgument ==
    (last.op = "create_obj_from_params" /\ RequiredArgs(last.cls) \ DOMAIN last.params # {}) =>
        /\ last.err.type = "Exception"
        /\ \E p \in RequiredArgs(last.cls) \ DOMAIN last.params : Names(last.err, p)
        /\ ~last.called
        /\ obj = last.pre
        /\ last.caller = last.params

\* the class c, or a class between it and ParameterizedABC, assigns name n in its body
DeclaredInFamily(c, n) ==
    \E i \in DOMAIN MRO(c) :
        /\ n \in classes[MRO(c)[i]].own
        /\ MRO(c)[i] \notin {"ParameterizedABC", "Parameterized"}

\* C6: a class under ParameterizedABC is instantiated without error exactly when
\* type_enum and type_ are both declared on it or on an ancestor; otherwise the
\* call raises TypeError (BadParent, BadBadChild and BadChild do, GoodChild does not).
C6_Instantiability ==
    (last.op = "new" /\ last.cls \in Families) =>
        /\ last.err = NoErr <=> (DeclaredInFamily(last.cls, "type_enum") /\ DeclaredInFamily(last.cls, "type_"))
        /\ last.err # NoErr => last.err.type = "TypeError" /\ obj = last.pre
        /\ last.err = NoErr => obj.cls = last.cls
        /\ last.cls \in {"BadParent", "BadBadChild", "BadChild"} => last.err.type = "TypeError"
        /\ last.cls = "GoodChild" => last.err = NoErr

C6_Witness ==
    /\ last.op = "new" /\ last.cls = "BadChild" /\ last.err.type = "TypeError"
    /\ DeclaredInFamily("BadChild", "type_enum") /\ ~DeclaredInFamily("BadChild", "type_")

\* the registry in which no class was ever decorated
NeverRegistered == [Parameterized |-> EmptyRules]

\* C7, as claimed: the rules registered for TempClass reach only TempClass and
\* its descendants; for every other class the four rule sets and the results of
\* get_params, update_from_params and from_params are what they would be had
\* TempClass never been decorated.
C7_RegistryScoping ==
    \A B \in RegClasses :
        ~IsSubclass(B, "TempClass") =>
            /\ RulesOf(registry, B) = EmptyRules
            /\ (last.op = "get_params" /\ last.cls = B) =>
                  last.outmap = get_params(B, last.pre.attrs, NeverRegistered)
            /\ (last.op = "update_from_params" /\ last.cls = B) =>
                  obj.attrs = update_from_params(B, last.pre.attrs, last.params, last.use, NeverRegistered).attrs
            /\ (last.op = "from_params" /\ last.cls = B) =>
                  last.err = from_params(B, last.params, NeverRegistered).err

\* the union of the excluded_params declared on c and on every ancestor of c
UnionExcluded(c) ==
    UNION {classes[MRO(c)[i]].excluded_params : i \in {j \in DOMAIN MRO(c) : "excluded_params" \in classes[MRO(c)[j]].own}}

\* C8, as claimed: get_params, update_from_params and from_params leave out every
\* attribute excluded by the class of the instance or by any of its ancestors.
C8_ExclusionInheritance ==
    /\ last.op = "get_params" =>
          DOMAIN last.outmap = (DOMAIN last.pre.attrs) \ UnionExcluded(last.cls)
    /\ (last.op = "update_from_params" /\ last.use) =>
          \A n \in UnionExcluded(last.cls) \cap DOMAIN obj.attrs : obj.attrs[n] = last.pre.attrs[n]
    /\ (last.op = "from_params" /\ last.err = NoErr) =>
          \A n \in UnionExcluded(last.cls) \cap DOMAIN obj.attrs :
              obj.attrs[n] = InitBody(last.cls, EmptyMap, EmptyMap)[n]

\* C9, as claimed: from_params, all_parameterized_subclasses and
\* subclass_type_mapping on a family root that declares no type_enum (from_params
\* with a mapping that carries a tag) raise the error of the explicit type_enum
\* check.
C9_ConfigurationError ==
    (/\ last.op \in {"from_params", "all_parameterized_subclasses", "subclass_type_mapping"}
     /\ last.cls \in Families
     /\ last.op = "from_params" => "type" \in DOMAIN last.params
     /\ ~DeclaredInFamily(last.cls, "type_enum")) =>
        last.err = IF last.op = "from_params" THEN NoTypeEnumError ELSE NonParameterizedSuperclassError

\* the rules get_params of the latest call read
SerializersOfLast == RulesOf(registry, last.cls)

\* the output the claim expects for a value of a built-in kind: the exact rule,
\* else the first type-matched rule, else the built-in conversion
RegistryFirst(attr, val) ==
    IF attr \in DOMAIN SerializersOfLast._param_serializers
    THEN Custom(SerializersOfLast._param_serializers[attr].f, val)
    ELSE IF \E i \in DOMAIN SerializersOfLast._type_serializers :
                isinstance(val, SerializersOfLast._type_serializers[i][1])
    THEN Custom(SerializersOfLast._type_serializers[FirstMatch(SerializersOfLast._type_serializers, val)][2].f, val)
    ELSE Builtin(val, registry)

BuiltinsFirst(attr, val) ==
    IF attr \in DOMAIN SerializersOfLast._param_serializers
    THEN Custom(SerializersOfLast._param_serializers[attr].f, val)
    ELSE IF val.k = "param" THEN DictV(get_params(val.c, val.sub, registry))
    ELSE IF val.k = "ndarray" THEN tolist(val)
    ELSE IF val.k = "enum" THEN StrV(val.v)
    ELSE IF val.k = "path" THEN V("str", val.c, val.v, NoSub)
    ELSE IF \E i \in DOMAIN SerializersOfLast._type_serializers :
                isinstance(val, SerializersOfLast._type_serializers[i][1])
    THEN Custom(SerializersOfLast._type_serializers[FirstMatch(SerializersOfLast._type_serializers, val)][2].f, val)
    ELSE val

DeserializersOfLast == RulesOf(registry, last.cls)

\* the type-matched deserializers, by position, whose type the value is an instance of
MatchingDeserializers(val) ==
    {i \in DOMAIN DeserializersOfLast._type_deserializers :
        isinstance(val, DeserializersOfLast._type_deserializers[i][1])}

\* the entry deserialize_params is expected to yield for key k: the exact rule's
\* result, else the result of the earliest registered matching type rule, else
\* the value
ExactThenFirstTypeRule(k, val) ==
    IF k \in DOMAIN DeserializersOfLast._param_deserializers
    THEN Apply(DeserializersOfLast._param_deserializers[k], val, registry)
    ELSE IF MatchingDeserializers(val) = {} THEN val
    ELSE Apply(DeserializersOfLast._type_deserializers[
                   CHOOSE i \in MatchingDeserializers(val) :
                       \A j \in MatchingDeserializers(val) : i <= j][2], val, registry)

\* the non-excluded keys of the mapping of the latest call
KeysOfLast == (DOMAIN last.params) \ excluded_params(last.cls)

\* C11: update_from_params with the deserializers on assigns to every attribute
\* that is a non-excluded key of the mapping the exact rule's result when one is
\* registered for the key (even if a type rule matches too), else the result of
\* the first matching type rule in registration order, else the value itself;
\* attributes whose names are not keys stay as they were; when a rule raises,
\* the call raises and the instance is untouched.
C11_DeserializeResolution ==
    (last.op = "update_from_params" /\ last.use) =>
        IF \E k \in KeysOfLast : IsRaise(ExactThenFirstTypeRule(k, last.params[k]))
        THEN last.err # NoErr /\ obj = last.pre
        ELSE /\ last.err = NoErr
             /\ DOMAIN obj.attrs = DOMAIN last.pre.attrs
             /\ \A a \in DOMAIN obj.attrs :
                   obj.attrs[a] = IF a \in KeysOfLast
                                  THEN ExactThenFirstTypeRule(a, last.params[a])
                                  ELSE last.pre.attrs[a]

\* a list arrived for attribute a, which has an exact rule and matches a type
\* rule, and for attribute h, which only matches type rules; a went through its
\* exact rule, h through the earliest registered type rule, i was not a key
C11_Witness ==
    /\ last.op = "update_from_params" /\ last.use /\ last.err = NoErr
    /\ last.cls = "TempClass"
    /\ {"a", "h"} \subseteq DOMAIN last.params /\ "i" \notin DOMAIN last.params
    /\ "a" \in DOMAIN DeserializersOfLast._param_deserializers
    /\ Cardinality(MatchingDeserializers(last.params["a"])) >= 2
    /\ obj.attrs["a"] = asarray(last.params["a"])
    /\ obj.attrs["h"] = Custom("list_deserializer", last.params["h"])
    /\ obj.attrs["i"] = last.pre.attrs["i"]

\* val is what the declaration (p, e) of enum_params accepts: a member of e or the
\* name of one
ValidForEnum(e, val) ==
    \/ val.k = "enum" /\ val.c = e
    \/ val.k = "str" /\ val.c = "" /\ val.v \in EnumMembers(e)

\* the member of e that val stands for
OwnMember(e, val) == IF val.k = "enum" THEN val ELSE EnumV(e, val.v)

\* the declarations of the class of the latest call whose attribute is a key of
\* the mapping of the latest call
DeclaredEnums ==
    {i \in DOMAIN enum_params(last.cls) : enum_params(last.cls)[i][1] \in DOMAIN last.params}

DeclaredParameterized ==
    {i \in DOMAIN parameterized_params(last.cls) :
        parameterized_params(last.cls)[i][1] \in DOMAIN last.params}

\* C12, as claimed: once TempClass is decorated with enum_params [(c, TestEnum),
\* (d, Color)] and parameterized_params [(n, Test), (m, Point)], deserializing a
\* name or a member given for an enum attribute yields the member of that
\* attribute's own class, and a mapping given for a parameterized attribute is
\* built into an instance of that attribute's own class.
C12_DeclaredConverters ==
    (/\ last.op = "update_from_params" /\ last.use
     /\ nregs > 0 /\ IsSubclass(last.cls, "TempClass")
     /\ \A i \in DeclaredEnums :
            ValidForEnum(enum_params(last.cls)[i][2], last.params[enum_params(last.cls)[i][1]])
     /\ \A i \in DeclaredParameterized :
            last.params[parameterized_params(last.cls)[i][1]].k = "dict") =>
        /\ last.err = NoErr
        /\ \A i \in DeclaredEnums :
              obj.attrs[enum_params(last.cls)[i][1]] =
                  OwnMember(enum_params(last.cls)[i][2], last.params[enum_params(last.cls)[i][1]])
        /\ \A i \in DeclaredParameterized :
              /\ obj.attrs[parameterized_params(last.cls)[i][1]].k = "param"
              /\ obj.attrs[parameterized_params(last.cls)[i][1]].c = parameterized_params(last.cls)[i][2]

\* the optional parameters of the constructor of c: the positional ones with a
\* default value and the keyword-only ones
OptionalParams(c) ==
    getfullargspec(c).defaults \cup
        {getfullargspec(c).kwonlyargs[i] : i \in DOMAIN getfullargspec(c).kwonlyargs}

\* the attribute the constructor of c sets from an optional parameter left to its
\* default: what the body assigns when it is called with the required arguments only
LeftToDefault(c, p) ==
    InitBody(c, [a \in RequiredArgs(c) |-> last.params[a]], EmptyMap)[p]

\* C13, as claimed: create_obj_from_params on a mapping that holds every
\* constructor parameter without a default builds the instance; an optional
\* parameter (with a default, or keyword-only) takes the mapping's value when its
\* name is a key and its default when it is not, and its absence never makes the
\* construction fail.
C13_OptionalParameters ==
    (last.op = "create_obj_from_params" /\ RequiredArgs(last.cls) \subseteq DOMAIN last.params) =>
        /\ last.err = NoErr
        /\ last.called
        /\ \A p \in OptionalParams(last.cls) :
              obj.attrs[p] = IF p \in DOMAIN last.params THEN last.params[p]
                             ELSE LeftToDefault(last.cls, p)

====
